---- MODULE Spec2Model ----
(***************************************************************************)
(* Model of elisctl's generic REST client (src/elisctl/lib/api_client.py): *)
(* APIClient (authentication, request layer, pagination walker, sideload,  *)
(* bulk delete), ELISClient's accessors and _encode_booleans.  The client  *)
(* is single threaded; the remote service is the environment, and every    *)
(* response it gives is an input of the action that issues the request.    *)
(***************************************************************************)
EXTENDS Integers, Sequences, FiniteSets, TLC

\* ------------------------------------------------------------ bounds
MaxOps == 2        \* operations issued inside one session body
MaxPages == 2      \* pages of a paginated collection
MaxItems == 2      \* items of a paginated collection
MaxDelete == 3     \* entries of a bulk delete

\* ------------------------------------------------- python values
\* A scalar is [t |-> type, v |-> repr]; a sequence is [t |-> "list", items |-> <<...>>].
PyTrue == [t |-> "bool", v |-> "True"]
PyFalse == [t |-> "bool", v |-> "False"]
PyStr(s) == [t |-> "str", v |-> s]
PyInt(s) == [t |-> "int", v |-> s]
PyList(xs) == [t |-> "list", items |-> xs]

\* str(b): the text Python prints for a value.
Str(b) == b.v

\* str.lower() on the texts that occur.
Lower(s) ==
    CASE s = "True" -> "true"
      [] s = "False" -> "false"
      [] OTHER -> s

\* isinstance(vs, str) or not hasattr(vs, "__iter__")
IsScalar(vs) == vs.t # "list"

\* Faulty variant: the text of the boolean is not lowered.
bool_to_str_keep_case(b) == IF b.t = "bool" THEN PyStr(Str(b)) ELSE b

bool_to_str(b) == IF b.t = "bool" THEN PyStr(Lower(Str(b))) ELSE b

\* An optional mapping: None, or a dict d (a function from its keys).
NoneDict == [none |-> TRUE, d |-> <<>>]
Dict(d) == [none |-> FALSE, d |-> d]

encode_booleans(query) ==
    IF query.none THEN query
    ELSE Dict([k \in DOMAIN query.d |->
                 LET vs == IF IsScalar(query.d[k]) THEN <<query.d[k]>> ELSE query.d[k].items
                 IN  [i \in DOMAIN vs |-> bool_to_str(vs[i])]])

\* ------------------------------------------------- the remote service
Url(path) == [path |-> path, id |-> 0, page |-> 0]
ItemUrl(path, id) == [path |-> path, id |-> id, page |-> 0]
PageUrl(path, p) == [path |-> path, id |-> 0, page |-> p]
LOGIN == Url("auth/login")
LOGOUT == Url("auth/logout")

\* A response of the service, or no response at all (requests raises).
Resp(status, json) == [error |-> FALSE, status |-> status, json |-> json]
NoResponse == [error |-> TRUE, status |-> 0, json |-> <<>>]
\* What a request was answered: no answer, or a status and, in a login
\* answer, the key of the body.
Answer(resp) ==
    [error |-> resp.error, status |-> resp.status,
     key |-> IF "key" \in DOMAIN resp.json THEN resp.json.key ELSE "None"]

Keys == {"k1", "k2"}
NoToken == "None"
LoginResponses ==
    {Resp(200, [key |-> k]) : k \in Keys}
        \cup {Resp(304, [key |-> "k1"]), Resp(304, [detail |-> "not modified"]),
              Resp(401, [detail |-> "bad credentials"]),
              Resp(500, [detail |-> "server error"]), NoResponse}
Obj == [url |-> "S1", name |-> "schema"]
Responses == {Resp(s, Obj) : s \in {200, 201, 204, 500}} \cup {NoResponse}

\* ------------------------------------------------- exceptions and results
NoVal == <<>>
Return(v) == [exc |-> "none", msg |-> "", val |-> v]
Raise(cls, msg) == [exc |-> cls, msg |-> msg, val |-> NoVal]
LoginFailed == Raise("ClickException", "Login failed with the provided credentials.")
InvalidResponse == Raise("ClickException", "Invalid response")
Raised(out) == out.exc # "none"

\* ------------------------------------------------- state
VARIABLES
    auth_using_token,  \* APIClient._auth_using_token
    token,             \* APIClient.token
    phase,             \* "body": inside the with block; "failed": an exception
                       \* is leaving it; "closed": __exit__ has run
    op,                \* the last operation run
    args,              \* its inputs (the caller's and the service's)
    log,               \* the HTTP requests it issued, in order
    result,            \* what it returned or raised
    echoed,            \* what it printed with click.echo
    nOps,              \* operations run inside the body
    nGet,              \* of these, plain get() calls
    nRequests,         \* HTTP requests issued by the session
    nLogin,            \* of these, POST auth/login
    nLogout,           \* of these, POST auth/logout
    granted            \* the keys the service's login answers have carried

vars == <<auth_using_token, token, phase, op, args, log, result, echoed,
          nOps, nGet, nRequests, nLogin, nLogout, granted>>

\* The client as one operation sees and changes it: the cached token, the
\* requests issued so far by the operation, the session's request count.
Client == [token |-> token, log |-> <<>>, n |-> nRequests]
Send(c, req, resp) ==
    [c EXCEPT !.log = Append(@, [n |-> c.n + 1, method |-> req.method, url |-> req.url,
                                 auth |-> req.auth, params |-> req.params,
                                 answer |-> Answer(resp)]),
              !.n = @ + 1]

\* ------------------------------------------------- APIClient
\* A value computed once and then used: v = ...; F(v).
With(v, F(_)) == F(v)

\* Response.ok of the requests library: the status is no 4xx and no 5xx.
ok(response) == ~(400 <= response.status /\ response.status < 600)

get_token(c, lr) ==
    [c |-> Send(c, [method |-> "post", url |-> LOGIN,
                    auth |-> [kind |-> "None", cred |-> ""], params |-> NoneDict], lr),
     out |-> IF lr.error THEN Raise("ConnectionError", "")
             ELSE IF lr.status = 401 THEN LoginFailed
             ELSE IF ~ok(lr) THEN InvalidResponse
             ELSE IF "key" \in DOMAIN lr.json THEN Return(lr.json.key)
             ELSE Raise("KeyError", "key")]

\* Faulty variant: the key is used for the request at hand and not kept.
authentication_no_cache(c, lr) ==
    IF auth_using_token
    THEN With(get_token(c, lr), LAMBDA r :
            IF Raised(r.out) THEN r
            ELSE [c |-> r.c, out |-> Return([kind |-> "Token", cred |-> r.out.val])])
    ELSE [c |-> c, out |-> Return([kind |-> "Basic", cred |-> "user:password"])]

authentication(c, lr) ==
    IF auth_using_token
    THEN IF c.token = NoToken
         THEN With(get_token(c, lr), LAMBDA r :
                 IF Raised(r.out) THEN r
                 ELSE [c |-> [r.c EXCEPT !.token = r.out.val],
                       out |-> Return([kind |-> "Token", cred |-> r.out.val])])
         ELSE [c |-> c, out |-> Return([kind |-> "Token", cred |-> c.token])]
    ELSE [c |-> c, out |-> Return([kind |-> "Basic", cred |-> "user:password"])]

\* Faulty variant: any status of the success class is taken.
request_url_accept_success(c, method, url, query, expected_status_code, lr, response) ==
    With(authentication(c, lr), LAMBDA a :
        IF Raised(a.out) THEN a
        ELSE [c |-> Send(a.c, [method |-> method, url |-> url, auth |-> a.out.val,
                               params |-> encode_booleans(query)], response),
              out |-> IF response.error THEN Raise("ConnectionError", "")
                      ELSE IF ~(200 <= response.status /\ response.status < 300)
                      THEN InvalidResponse
                      ELSE Return(response)])

request_url(c, method, url, query, expected_status_code, lr, response) ==
    With(authentication(c, lr), LAMBDA a :
        IF Raised(a.out) THEN a
        ELSE [c |-> Send(a.c, [method |-> method, url |-> url, auth |-> a.out.val,
                               params |-> encode_booleans(query)], response),
              out |-> IF response.error THEN Raise("ConnectionError", "")
                      ELSE IF response.status # expected_status_code THEN InvalidResponse
                      ELSE Return(response)])

post(c, path, expected_status_code, lr, response) ==
    request_url(c, "post", Url(path), NoneDict, expected_status_code, lr, response)

patch(c, path, lr, response) ==
    request_url(c, "patch", Url(path), NoneDict, 200, lr, response)

get(c, url, query, lr, response) == request_url(c, "get", url, query, 200, lr, response)

\* Faulty variant: the link is taken for a path of the collection.
get_url_as_path(c, url, query, lr, response) ==
    request_url(c, "get", Url(url.path), query, 200, lr, response)

get_url(c, url, query, lr, response) == request_url(c, "get", url, query, 200, lr, response)

delete_url(c, url, lr, response) ==
    request_url(c, "delete", url, NoneDict, 204, lr, response)

\* Faulty variant: logout drops the cached token once its call is made.
logout_clears_token(c, lr, response) ==
    IF auth_using_token
    THEN With(post(c, "auth/logout", 200, lr, response), LAMBDA r :
            [c |-> [r.c EXCEPT !.token = NoToken], out |-> r.out])
    ELSE [c |-> c, out |-> Return(NoVal)]

\* Faulty variant: logout makes its call only when a token is cached.
logout_if_token(c, lr, response) ==
    IF auth_using_token /\ c.token # NoToken THEN post(c, "auth/logout", 200, lr, response)
    ELSE [c |-> c, out |-> Return(NoVal)]

\* Faulty variant: logout forgets its call.
logout_never(c, lr, response) == [c |-> c, out |-> Return(NoVal)]

\* Faulty variant: logout does not look at the authentication mode.
logout_always(c, lr, response) == post(c, "auth/logout", 200, lr, response)

logout(c, lr, response) ==
    IF auth_using_token THEN post(c, "auth/logout", 200, lr, response)
    ELSE [c |-> c, out |-> Return(NoVal)]

\* ------------------------------------------------- paginated collections
\* The service holds, for every collection path, the items 1..N split into
\* pages at the cut points: page j holds the items cuts[j-1]+1 .. cuts[j].
Null == Url("")
\* Queue i lies in workspace i + 1 and workspace i holds the queues i and
\* i + 1, so that the last reference of a collection names an object the
\* service does not hold.
Item(path, i) ==
    CASE path = "queues" ->
            [id |-> i, url |-> ItemUrl(path, i), workspace |-> ItemUrl("workspaces", i + 1)]
      [] path = "workspaces" ->
            [id |-> i, url |-> ItemUrl(path, i),
             queues |-> <<ItemUrl("queues", i), ItemUrl("queues", i + 1)>>]
      [] OTHER -> [id |-> i, url |-> ItemUrl(path, i)]
Splits ==
    UNION {{f \in [1..P -> 0..MaxItems] : \A j \in 1..(P - 1) : f[j] <= f[j + 1]} :
           P \in 1..MaxPages}
NPages(srv) == Len(srv.cuts)
NItems(srv) == srv.cuts[Len(srv.cuts)]
PageOf(srv, path, j) ==
    LET lo == IF j = 1 THEN 0 ELSE srv.cuts[j - 1]
    IN  [i \in 1..(srv.cuts[j] - lo) |-> Item(path, lo + i)]
AllItems(srv, path) == [i \in 1..NItems(srv) |-> Item(path, i)]
Envelope(srv, path, j) ==
    [results |-> PageOf(srv, path, j),
     pagination |-> [next |-> IF j < NPages(srv) THEN PageUrl(path, j + 1) ELSE Null,
                     total |-> NItems(srv)]]
\* The answer to the GET of a page, the fail-th GET of the operation excepted.
DataRequests(c) == Len(SelectSeq(c.log, LAMBDA r : r.url # LOGIN))
Serve(srv, c, url) ==
    IF DataRequests(c) + 1 = srv.fail
    THEN Resp(500, [detail |-> "server error"])
    ELSE IF url.id # 0
         THEN IF url.id <= NItems(srv) THEN Resp(200, Item(url.path, url.id))
              ELSE Resp(404, [detail |-> "not found"])
    ELSE Resp(200, Envelope(srv, url.path, IF url.page = 0 THEN 1 ELSE url.page))

RECURSIVE next_pages(_, _, _, _, _)
next_pages(c, res, response_dict, lr, srv) ==
    LET next_page == response_dict.pagination.next
    IN  IF next_page = Null
        THEN [c |-> c, out |-> Return([items |-> res, total |-> response_dict.pagination.total])]
        ELSE With(get_url(c, next_page, NoneDict, lr, Serve(srv, c, next_page)), LAMBDA r :
                IF Raised(r.out) THEN r
                ELSE next_pages(r.c, res \o r.out.val.json.results, r.out.val.json, lr, srv))

\* Faulty variant: a page that cannot be fetched ends the walk with the items
\* collected so far.
RECURSIVE next_pages_partial(_, _, _, _, _)
next_pages_partial(c, res, response_dict, lr, srv) ==
    LET next_page == response_dict.pagination.next
    IN  IF next_page = Null
        THEN [c |-> c, out |-> Return([items |-> res, total |-> response_dict.pagination.total])]
        ELSE With(get_url(c, next_page, NoneDict, lr, Serve(srv, c, next_page)), LAMBDA r :
                IF Raised(r.out)
                THEN [c |-> r.c,
                      out |-> Return([items |-> res, total |-> response_dict.pagination.total])]
                ELSE next_pages_partial(r.c, res \o r.out.val.json.results, r.out.val.json,
                                        lr, srv))

get_paginated_partial(c, path, query, lr, srv) ==
    With(get(c, Url(path), query, lr, Serve(srv, c, Url(path))), LAMBDA r :
        IF Raised(r.out) THEN r
        ELSE next_pages_partial(r.c, r.out.val.json.results, r.out.val.json, lr, srv))

\* Faulty variant: the next link is not followed.
get_paginated_one_page(c, path, query, lr, srv) ==
    With(get(c, Url(path), query, lr, Serve(srv, c, Url(path))), LAMBDA r :
        IF Raised(r.out) THEN r
        ELSE [c |-> r.c, out |-> Return([items |-> r.out.val.json.results,
                                          total |-> r.out.val.json.pagination.total])])

get_paginated(c, path, query, lr, srv) ==
    With(get(c, Url(path), query, lr, Serve(srv, c, Url(path))), LAMBDA r :
        IF Raised(r.out) THEN r
        ELSE next_pages(r.c, r.out.val.json.results, r.out.val.json, lr, srv))

\* ------------------------------------------------- APIObject
\* str.rstrip("s") on the plural names that occur.
RStripS(s) ==
    CASE s = "organizations" -> "organization"
      [] s = "workspaces" -> "workspace"
      [] s = "queues" -> "queue"
      [] s = "connectors" -> "connector"
      [] s = "schemas" -> "schema"
      [] s = "users" -> "user"
      [] OTHER -> s
APIObject(plural) == [plural |-> plural, singular |-> RStripS(plural)]
WORKSPACES == APIObject("workspaces")
QUEUES == APIObject("queues")

\* ------------------------------------------------- sideload
EmptyMap == <<>>

\* sideloaded_dicts.get(url, {}): of the fetched objects with this url, the last.
Lookup(sideloaded, url) ==
    LET hits == {i \in DOMAIN sideloaded : sideloaded[i].url = url}
    IN  IF hits = {} THEN EmptyMap
        ELSE sideloaded[CHOOSE i \in hits : \A j \in hits : j <= i]

\* A reference is a URL; an object put in its place is a dict, which cannot
\* be looked up (TypeError: unhashable type).
IsUrl(v) == "path" \in DOMAIN v

\* Faulty variant: an unknown reference is left as it is.
inject_sideloaded_keep_unknown(obj, sideload, sideloaded) ==
    LET find(url) == IF Lookup(sideloaded, url) = EmptyMap THEN url
                     ELSE Lookup(sideloaded, url)
    IN  IF sideload.singular \in DOMAIN obj
        THEN Return([obj EXCEPT ![sideload.singular] = find(@)])
        ELSE IF sideload.plural \in DOMAIN obj
             THEN Return([obj EXCEPT ![sideload.plural] = [i \in DOMAIN @ |-> find(@[i])]])
             ELSE Raise("KeyError", sideload.plural)

\* Faulty variant: an object with neither field is left as it is.
inject_sideloaded_skip_missing(obj, sideload, sideloaded) ==
    IF sideload.singular \in DOMAIN obj
    THEN IF ~IsUrl(obj[sideload.singular]) THEN Raise("TypeError", "unhashable type")
         ELSE Return([obj EXCEPT ![sideload.singular] = Lookup(sideloaded, @)])
    ELSE IF sideload.plural \in DOMAIN obj
         THEN IF \E i \in DOMAIN obj[sideload.plural] : ~IsUrl(obj[sideload.plural][i])
              THEN Raise("TypeError", "unhashable type")
              ELSE Return([obj EXCEPT ![sideload.plural] =
                                          [i \in DOMAIN @ |-> Lookup(sideloaded, @[i])]])
         ELSE Return(obj)

inject_sideloaded(obj, sideload, sideloaded) ==
    IF sideload.singular \in DOMAIN obj
    THEN IF ~IsUrl(obj[sideload.singular]) THEN Raise("TypeError", "unhashable type")
         ELSE Return([obj EXCEPT ![sideload.singular] = Lookup(sideloaded, @)])
    ELSE IF sideload.plural \in DOMAIN obj
         THEN IF \E i \in DOMAIN obj[sideload.plural] : ~IsUrl(obj[sideload.plural][i])
              THEN Raise("TypeError", "unhashable type")
              ELSE Return([obj EXCEPT ![sideload.plural] =
                                          [i \in DOMAIN @ |-> Lookup(sideloaded, @[i])]])
         ELSE Raise("KeyError", sideload.plural)

\* objects = [inject_sideloaded(o) for o in objects]: the objects are rewritten
\* in place one after the other, and the first failure ends the rewriting.
RECURSIVE inject_all(_, _, _, _)
inject_all(objects, i, sideload, sideloaded) ==
    IF i > Len(objects) THEN [objects |-> objects, out |-> Return(NoVal)]
    ELSE With(inject_sideloaded(objects[i], sideload, sideloaded), LAMBDA r :
            IF Raised(r) THEN [objects |-> objects, out |-> r]
            ELSE inject_all([objects EXCEPT ![i] = r.val], i + 1, sideload, sideloaded))

\* Returns the client, the outcome and the caller's objects as they are left.
RECURSIVE sideload_from(_, _, _, _, _, _)
sideload_from(c, objects, sideloads, k, lr, srv) ==
    IF k > Len(sideloads) THEN [c |-> c, out |-> Return(objects), objects |-> objects]
    ELSE With(get_paginated(c, sideloads[k].plural, NoneDict, lr, srv), LAMBDA r :
            IF Raised(r.out) THEN [c |-> r.c, out |-> r.out, objects |-> objects]
            ELSE With(inject_all(objects, 1, sideloads[k], r.out.val.items), LAMBDA inj :
                    IF Raised(inj.out)
                    THEN [c |-> r.c, out |-> inj.out, objects |-> inj.objects]
                    ELSE sideload_from(r.c, inj.objects, sideloads, k + 1, lr, srv)))

\* Faulty variant: with no kind asked for, the workspaces are resolved.
sideload_default_kinds(c, objects, sideloads, lr, srv) ==
    sideload_from(c, objects, IF sideloads = <<>> THEN <<WORKSPACES>> ELSE sideloads, 1, lr, srv)

\* sideloads or []: a missing kind list is the empty one, <<>>.
sideload(c, objects, sideloads, lr, srv) == sideload_from(c, objects, sideloads, 1, lr, srv)

\* ------------------------------------------------- bulk delete
RECURSIVE delete_from(_, _, _, _, _, _, _)
delete_from(c, to_delete, i, verbose, echo, lrs, responses) ==
    IF i > Len(to_delete) THEN [c |-> c, out |-> Return(NoVal), echo |-> echo]
    ELSE With(delete_url(c, to_delete[i].url, lrs[i], responses[i]), LAMBDA r :
            IF Raised(r.out) /\ r.out.exc # "ClickException"
            THEN [c |-> r.c, out |-> Raise("ClickException", r.out.exc),
                  echo |-> Append(echo, [id |-> to_delete[i].id,
                                         said |-> "caused an unexpected exception"])]
            ELSE delete_from(r.c, to_delete, i + 1, verbose,
                             IF r.out.exc = "ClickException"
                             THEN Append(echo, [id |-> to_delete[i].id, said |-> "caused"])
                             ELSE IF verbose > 1
                             THEN Append(echo, [id |-> to_delete[i].id, said |-> "Deleted"])
                             ELSE echo,
                             lrs, responses))

\* Faulty variant: an unexpected failure is reported and the batch goes on.
RECURSIVE delete_from_go_on(_, _, _, _, _, _, _)
delete_from_go_on(c, to_delete, i, verbose, echo, lrs, responses) ==
    IF i > Len(to_delete) THEN [c |-> c, out |-> Return(NoVal), echo |-> echo]
    ELSE With(delete_url(c, to_delete[i].url, lrs[i], responses[i]), LAMBDA r :
            delete_from_go_on(r.c, to_delete, i + 1, verbose,
                              IF Raised(r.out) /\ r.out.exc # "ClickException"
                              THEN Append(echo, [id |-> to_delete[i].id,
                                                 said |-> "caused an unexpected exception"])
                              ELSE IF r.out.exc = "ClickException"
                              THEN Append(echo, [id |-> to_delete[i].id, said |-> "caused"])
                              ELSE IF verbose > 1
                              THEN Append(echo, [id |-> to_delete[i].id, said |-> "Deleted"])
                              ELSE echo,
                              lrs, responses))
delete_go_on(c, to_delete, verbose, lrs, responses) ==
    delete_from_go_on(c, to_delete, 1, verbose, <<>>, lrs, responses)

\* Faulty variant: the first entry that fails ends the batch.
delete_stop_at_failure(c, to_delete, verbose, lrs, responses) ==
    LET bad == {i \in DOMAIN to_delete : responses[i] # Resp(204, <<>>)}
        last == IF bad = {} THEN Len(to_delete) ELSE CHOOSE i \in bad : \A j \in bad : i <= j
    IN  delete_from(c, SubSeq(to_delete, 1, last), 1, verbose, <<>>, lrs, responses)

delete(c, to_delete, verbose, lrs, responses) ==
    delete_from(c, to_delete, 1, verbose, <<>>, lrs, responses)

\* ------------------------------------------------- ELISClient
\* An optional integer: None, or the integer v.
NoneId == [none |-> TRUE, v |-> 0]
Id(i) == [none |-> FALSE, v |-> i]
Repr(i) == CASE i = 0 -> "0" [] i = 1 -> "1" [] i = 2 -> "2" [] i = 3 -> "3" [] OTHER -> "4"

\* The listing an accessor returns once its sideloads are resolved.
sideloaded_list(r, sideloads, lr, srv) ==
    IF Raised(r.out) THEN r
    ELSE With(sideload(r.c, r.out.val.items, sideloads, lr, srv), LAMBDA s :
            [c |-> s.c, out |-> IF Raised(s.out) THEN s.out ELSE Return(s.objects)])

get_workspaces(c, sideloads, lr, srv) ==
    sideloaded_list(get_paginated(c, WORKSPACES.plural, NoneDict, lr, srv), sideloads, lr, srv)

get_queues(c, sideloads, workspace, lr, srv) ==
    sideloaded_list(
        get_paginated(c, QUEUES.plural,
                      IF ~workspace.none /\ workspace.v # 0
                      THEN Dict([k \in {WORKSPACES.singular} |-> PyInt(Repr(workspace.v))])
                      ELSE Dict(<<>>),
                      lr, srv),
        sideloads, lr, srv)

\* The object an accessor returns once its sideloads are resolved.
sideloaded_one(c, object, sideloads, lr, srv) ==
    With(sideload(c, <<object>>, sideloads, lr, srv), LAMBDA s :
        [c |-> s.c, out |-> IF Raised(s.out) THEN s.out ELSE Return(s.objects[1])])

\* Faulty variant: with no id, only a listing of several workspaces asks for
\* the id and the first workspace of the listing is taken.
get_workspace_many_only(c, id_, sideloads, lr, srv) ==
    IF id_.none
    THEN With(get_workspaces(c, <<>>, lr, srv), LAMBDA r :
            IF Raised(r.out) THEN r
            ELSE IF Len(r.out.val) > 1
            THEN [c |-> r.c, out |-> Raise("ClickException", "Workspace ID must be specified.")]
            ELSE IF Len(r.out.val) = 0
            THEN [c |-> r.c, out |-> Raise("IndexError", "list index out of range")]
            ELSE sideloaded_one(r.c, r.out.val[1], sideloads, lr, srv))
    ELSE With(get(c, ItemUrl(WORKSPACES.plural, id_.v), NoneDict, lr,
                  Serve(srv, c, ItemUrl(WORKSPACES.plural, id_.v))), LAMBDA r :
            IF Raised(r.out) THEN r
            ELSE sideloaded_one(r.c, r.out.val.json, sideloads, lr, srv))

get_workspace(c, id_, sideloads, lr, srv) ==
    IF id_.none
    THEN With(get_workspaces(c, <<>>, lr, srv), LAMBDA r :
            IF Raised(r.out) THEN r
            ELSE IF Len(r.out.val) # 1
            THEN [c |-> r.c, out |-> Raise("ClickException", "Workspace ID must be specified.")]
            ELSE sideloaded_one(r.c, r.out.val[1], sideloads, lr, srv))
    ELSE With(get(c, ItemUrl(WORKSPACES.plural, id_.v), NoneDict, lr,
                  Serve(srv, c, ItemUrl(WORKSPACES.plural, id_.v))), LAMBDA r :
            IF Raised(r.out) THEN r
            ELSE sideloaded_one(r.c, r.out.val.json, sideloads, lr, srv))

\* Faulty variant: with no id, the first queue of the listing is taken.
get_queue_first(c, id_, sideloads, lr, srv) ==
    IF id_.none
    THEN With(get_queues(c, <<>>, NoneId, lr, srv), LAMBDA r :
            IF Raised(r.out) THEN r
            ELSE IF Len(r.out.val) = 0
            THEN [c |-> r.c, out |-> Raise("ClickException", "Queue ID must be specified.")]
            ELSE sideloaded_one(r.c, r.out.val[1], sideloads, lr, srv))
    ELSE With(get(c, ItemUrl(QUEUES.plural, id_.v), NoneDict, lr,
                  Serve(srv, c, ItemUrl(QUEUES.plural, id_.v))), LAMBDA r :
            IF Raised(r.out) THEN r
            ELSE sideloaded_one(r.c, r.out.val.json, sideloads, lr, srv))

get_queue(c, id_, sideloads, lr, srv) ==
    IF id_.none
    THEN With(get_queues(c, <<>>, NoneId, lr, srv), LAMBDA r :
            IF Raised(r.out) THEN r
            ELSE IF Len(r.out.val) # 1
            THEN [c |-> r.c, out |-> Raise("ClickException", "Queue ID must be specified.")]
            ELSE sideloaded_one(r.c, r.out.val[1], sideloads, lr, srv))
    ELSE With(get(c, ItemUrl(QUEUES.plural, id_.v), NoneDict, lr,
                  Serve(srv, c, ItemUrl(QUEUES.plural, id_.v))), LAMBDA r :
            IF Raised(r.out) THEN r
            ELSE sideloaded_one(r.c, r.out.val.json, sideloads, lr, srv))

\* ------------------------------------------------- the session
\* with APIClient(...) as api_client: <body>.  The body runs operations one
\* after the other; an exception one of them raises leaves the body at once,
\* and __exit__ runs on the way out either way.
NoArgs == [none |-> TRUE]

\* The login answers the service may give; none is needed once a token is cached.
Logins == IF auth_using_token /\ token = NoToken THEN LoginResponses ELSE {NoResponse}
LoginClasses ==
    IF auth_using_token /\ token = NoToken
    THEN {Resp(200, [key |-> "k1"]), Resp(401, [detail |-> "bad credentials"]), NoResponse}
    ELSE {NoResponse}

CountUrl(l, url) == Len(SelectSeq(l, LAMBDA r : r.url = url))
KeysIn(l) == {l[i].answer.key : i \in {j \in DOMAIN l : l[j].url = LOGIN}} \ {"None"}

\* The state an operation of the body leaves.
Done(name, a, r, said) ==
    /\ op' = name
    /\ args' = a
    /\ token' = r.c.token
    /\ log' = r.c.log
    /\ result' = r.out
    /\ echoed' = said
    /\ nOps' = nOps + 1
    /\ nGet' = IF name = "get" THEN nGet + 1 ELSE nGet
    /\ nRequests' = r.c.n
    /\ nLogin' = nLogin + CountUrl(r.c.log, LOGIN)
    /\ nLogout' = nLogout + CountUrl(r.c.log, LOGOUT)
    /\ granted' = granted \cup KeysIn(r.c.log)
    /\ phase' = IF Raised(r.out) THEN "failed" ELSE "body"
    /\ UNCHANGED auth_using_token

DoneEcho(name, a, r) == Done(name, a, r, r.echo)
\* _sideload rewrites the caller's objects in place: what it leaves is kept.
DoneLeft(name, a, r) == Done(name, [a EXCEPT !.left = r.objects], r, <<>>)

InBody == phase = "body" /\ nOps < MaxOps

Queries == {NoneDict, Dict([sideload |-> PyList(<<PyStr("queues")>>), active |-> PyTrue])}

Init ==
    /\ auth_using_token \in BOOLEAN
    /\ token = NoToken
    /\ phase = "body"
    /\ op = "init"
    /\ args = NoArgs
    /\ log = <<>>
    /\ result = Return(NoVal)
    /\ echoed = <<>>
    /\ nOps = 0
    /\ nGet = 0
    /\ nRequests = 0
    /\ nLogin = 0
    /\ nLogout = 0
    /\ granted = {}

Get ==
    /\ InBody
    /\ \E query \in Queries, lr \in Logins, response \in Responses :
          Done("get", [query |-> query, response |-> response],
               get(Client, Url("schemas/1"), query, lr, response), <<>>)

Post ==
    /\ InBody
    /\ \E lr \in Logins, response \in Responses :
          Done("post", [response |-> response],
               post(Client, "schemas", 201, lr, response), <<>>)

Patch ==
    /\ InBody
    /\ \E lr \in Logins, response \in Responses :
          Done("patch", [response |-> response],
               patch(Client, "schemas/1", lr, response), <<>>)

DeleteUrl ==
    /\ InBody
    /\ \E lr \in Logins, response \in Responses :
          Done("delete_url", [response |-> response],
               delete_url(Client, Url("annotations/1"), lr, response), <<>>)

\* get_url is handed an absolute URL, as a next link is.
GetUrl ==
    /\ InBody
    /\ \E query \in Queries, lr \in Logins, response \in Responses :
          Done("get_url", [query |-> query, response |-> response],
               get_url(Client, PageUrl("queues", 2), query, lr, response), <<>>)

\* fail = 0: every page is served; fail = j: the j-th GET is answered 500.
Services == {s \in [cuts : Splits, fail : 0..MaxPages] : s.fail <= Len(s.cuts)}

GetPaginated ==
    /\ InBody
    /\ \E query \in Queries, lr \in LoginClasses, srv \in Services :
          Done("get_paginated", [query |-> query, srv |-> srv],
               get_paginated(Client, "queues", query, lr, srv), <<>>)

\* to_delete: the annotations 1..K; the service answers each DELETE with
\* 204, with 404, or not at all.
ToDelete(K) == [i \in 1..K |-> [id |-> i, url |-> ItemUrl("annotations", i)]]
DeleteResponses == {Resp(204, <<>>), Resp(404, [detail |-> "not found"]), NoResponse}
\* The answers a bulk delete can meet: nothing is sent after a DELETE that got
\* no answer.
DeleteRuns(K) ==
    {f \in [1..K -> DeleteResponses] :
        \A i \in 1..K : f[i].error => \A j \in i..K : f[j].error}
\* The login answers a bulk delete can meet: each entry logs in anew while no
\* token is cached, so it meets some refusals and then a key or no answer.
LoginRuns(K) ==
    IF auth_using_token /\ token = NoToken
    THEN {[i \in 1..K |-> IF i <= j THEN Resp(401, [detail |-> "bad credentials"]) ELSE t] :
          j \in 0..K, t \in {Resp(200, [key |-> "k1"]), NoResponse}}
    ELSE {[i \in 1..K |-> NoResponse]}

Delete ==
    /\ InBody
    /\ \E K \in 1..MaxDelete, verbose \in {0, 2} :
          \E lrs \in LoginRuns(K), responses \in DeleteRuns(K) :
             DoneEcho("delete", [to_delete |-> ToDelete(K), verbose |-> verbose,
                                 responses |-> responses],
                      delete(Client, ToDelete(K), verbose, lrs, responses))

\* The state __exit__ leaves: an exception logout raises replaces the one
\* that is leaving the body.
Left(a, r) ==
    /\ op' = "exit"
    /\ args' = a
    /\ token' = r.c.token
    /\ log' = r.c.log
    /\ result' = IF Raised(r.out) \/ phase = "body" THEN r.out ELSE result
    /\ nRequests' = r.c.n
    /\ nLogin' = nLogin + CountUrl(r.c.log, LOGIN)
    /\ nLogout' = nLogout + CountUrl(r.c.log, LOGOUT)
    /\ granted' = granted \cup KeysIn(r.c.log)
    /\ phase' = "closed"
    /\ UNCHANGED <<auth_using_token, echoed, nOps, nGet>>

\* __exit__: logout().
Exit ==
    /\ phase \in {"body", "failed"}
    /\ \E lr \in Logins, response \in {Resp(200, <<>>), Resp(401, <<>>), NoResponse} :
          Left([response |-> response, left |-> phase], logout(Client, lr, response))

Next == Get \/ Post \/ Patch \/ GetUrl \/ DeleteUrl \/ GetPaginated \/ Delete \/ Exit

Spec == Init /\ [][Next]_vars

\* ------------------------------------------------- the accessors
\* An accessor, or _sideload, run as the first operation of a session.
First == phase = "body" /\ nOps = 0

MaxParents == 2    \* objects handed to _sideload
MaxLen == 2        \* values of one query parameter

GetWorkspaces ==
    /\ First
    /\ \E sideloads \in {<<>>, <<QUEUES>>}, lr \in LoginClasses, srv \in Services :
          Done("get_workspaces", [sideloads |-> sideloads, srv |-> srv],
               get_workspaces(Client, sideloads, lr, srv), <<>>)

GetQueues ==
    /\ First
    /\ \E sideloads \in {<<>>, <<WORKSPACES>>}, workspace \in {NoneId, Id(1)},
          lr \in LoginClasses, srv \in Services :
          Done("get_queues", [sideloads |-> sideloads, workspace |-> workspace, srv |-> srv],
               get_queues(Client, sideloads, workspace, lr, srv), <<>>)

Ids == {NoneId} \cup {Id(i) : i \in 1..MaxItems}

GetWorkspace ==
    /\ First
    /\ \E id_ \in Ids, sideloads \in {<<>>, <<QUEUES>>}, lr \in LoginClasses,
          srv \in Services :
          Done("get_workspace", [id_ |-> id_, sideloads |-> sideloads, srv |-> srv],
               get_workspace(Client, id_, sideloads, lr, srv), <<>>)

GetQueue ==
    /\ First
    /\ \E id_ \in Ids, sideloads \in {<<>>, <<WORKSPACES>>}, lr \in LoginClasses,
          srv \in Services :
          Done("get_queue", [id_ |-> id_, sideloads |-> sideloads, srv |-> srv],
               get_queue(Client, id_, sideloads, lr, srv), <<>>)

\* The objects _sideload is handed: a queue naming a workspace, a workspace
\* naming queues, an object with no reference of either kind, and a queue whose
\* workspace has been put in place already.
Refs == 1..(MaxItems + 1)
Parents ==
    {[id |-> 1, url |-> ItemUrl("queues", 1), workspace |-> ItemUrl("workspaces", w)] :
        w \in Refs}
      \cup {[id |-> 1, url |-> ItemUrl("workspaces", 1), queues |-> qs] :
               qs \in {<<>>, <<ItemUrl("queues", 1), ItemUrl("queues", MaxItems + 1)>>,
                       <<ItemUrl("queues", MaxItems + 1), ItemUrl("queues", 1)>>}}
      \cup {[id |-> 1, url |-> ItemUrl("schemas", 1)],
            [id |-> 1, url |-> ItemUrl("queues", 1), workspace |-> Item("workspaces", 1)]}
ParentLists == UNION {[1..n -> Parents] : n \in 1..MaxParents}
Kinds == {<<>>, <<WORKSPACES>>, <<QUEUES>>, <<WORKSPACES, QUEUES>>}

Sideload ==
    /\ First
    /\ \E objects \in ParentLists, sideloads \in Kinds, lr \in LoginClasses,
          srv \in Services :
          DoneLeft("sideload", [objects |-> objects, sideloads |-> sideloads, srv |-> srv,
                                left |-> <<>>],
                   sideload(Client, objects, sideloads, lr, srv))

NextAccess == GetWorkspaces \/ GetQueues \/ GetWorkspace \/ GetQueue \/ Sideload

SpecAccess == Init /\ [][NextAccess]_vars

\* ------------------------------------------------- _encode_booleans alone
Scalars == {PyTrue, PyFalse, PyStr("True"), PyStr("x"), PyInt("1")}
Lists == UNION {[1..n -> {PyTrue, PyFalse, PyStr("x")}] : n \in 0..MaxLen}
Values == Scalars \cup {PyList(xs) : xs \in Lists}
EncQueries ==
    {NoneDict} \cup UNION {{Dict(d) : d \in [K -> Values]} : K \in SUBSET {"active", "page"}}

InitEncode ==
    /\ Init
    /\ auth_using_token = FALSE

Encode ==
    /\ op = "init"
    /\ \E query \in EncQueries :
          /\ op' = "encode_booleans"
          /\ args' = [query |-> query]
          /\ result' = Return(encode_booleans(query))
    /\ UNCHANGED <<auth_using_token, token, phase, log, echoed, nOps, nGet, nRequests,
                   nLogin, nLogout, granted>>

NextEncode == Encode

SpecEncode == InitEncode /\ [][NextEncode]_vars

\* ================================================= claims
\* Every login call of the last operation was answered with a key.
LoginsAnswered == \A i \in DOMAIN log : log[i].url = LOGIN => log[i].answer.key # "None"
CountReq(method, url) ==
    Len(SelectSeq(log, LAMBDA r : r.method = method /\ r.url = url))

\* C1: get_paginated over a collection served whole as a chain of P pages
\* holding N items returns exactly those N items, in page order and then
\* within-page order, and reports the total N.
C1_FetchAllComplete ==
    (op = "get_paginated" /\ args.srv.fail = 0 /\ LoginsAnswered)
        => /\ ~Raised(result)
           /\ result.val.items = AllItems(args.srv, "queues")
           /\ Len(result.val.items) = NItems(args.srv)
           /\ result.val.total = NItems(args.srv)

C1_Witness ==
    /\ op = "get_paginated" /\ ~Raised(result)
    /\ NPages(args.srv) = MaxPages /\ NItems(args.srv) = MaxItems
    /\ \A j \in 1..NPages(args.srv) : Len(PageOf(args.srv, "queues", j)) > 0

\* C2 (as claimed): in token mode a session issues at most one login call,
\* whether its requests and its login succeed or fail.
C2_AtMostOneLogin == auth_using_token => nLogin <= 1

\* C3 (as claimed): in token mode, a session that has been left has issued the
\* logout call exactly once, whatever happened in its body.
C3_LogoutOnEveryExit == (auth_using_token /\ phase = "closed") => nLogout = 1

\* C3 (amended): in token mode no logout call is issued inside the body, and
\* leaving the session issues it exactly once when the session holds a token
\* by then (cached by the body, or obtained by the login logout itself
\* triggers) and not at all when it holds none.
C3_LogoutOnceIfToken ==
    auth_using_token
        => /\ phase # "closed" => nLogout = 0
           /\ phase = "closed" => nLogout = (IF token # NoToken THEN 1 ELSE 0)

C3_Witness ==
    /\ auth_using_token /\ phase = "closed" /\ args.left = "failed"
    /\ nLogout = 1 /\ nLogin = 1

\* C4: a bulk delete in which exactly one entry M is refused (a status other
\* than 204) reports one failure, for M, sends exactly one DELETE for every
\* entry, before and after M, and returns without raising.
C4_OneFailureOthersDeleted ==
    (/\ op = "delete" /\ LoginsAnswered
     /\ LET bad == {i \in DOMAIN args.responses : args.responses[i] # Resp(204, <<>>)}
        IN  Cardinality(bad) = 1 /\ \A i \in bad : ~args.responses[i].error)
        => LET M == CHOOSE i \in DOMAIN args.responses : args.responses[i] # Resp(204, <<>>)
           IN  /\ ~Raised(result)
               /\ SelectSeq(echoed, LAMBDA e : e.said # "Deleted")
                     = <<[id |-> args.to_delete[M].id, said |-> "caused"]>>
               /\ \A i \in DOMAIN args.to_delete :
                     CountReq("delete", args.to_delete[i].url) = 1

C4_Witness ==
    /\ op = "delete" /\ LoginsAnswered /\ Len(args.to_delete) = 3
    /\ args.responses[1] = Resp(204, <<>>)
    /\ args.responses[2] # Resp(204, <<>>) /\ ~args.responses[2].error
    /\ args.responses[3] = Resp(204, <<>>)
    /\ CountReq("delete", args.to_delete[3].url) = 1

\* C5 (as claimed): a login answered 401 fails with "Login failed", a login
\* answered with another non-2xx status fails with the generic invalid
\* response error, and a token comes only from a 2xx login answer.
Is2xx(status) == 200 <= status /\ status < 300
C5_LoginErrors ==
    \A i \in DOMAIN log :
        (log[i].url = LOGIN /\ ~log[i].answer.error /\ op # "delete")
            => /\ log[i].answer.status = 401 => result = LoginFailed
               /\ (log[i].answer.status # 401 /\ ~Is2xx(log[i].answer.status))
                     => result = InvalidResponse
               /\ token # NoToken => Is2xx(log[i].answer.status)

\* C7: in token mode every request but the login call carries
\* Authorization: Token t, t being the one key the service has granted the
\* session, and none is sent before the login that granted it.
C7_TokenHeader ==
    auth_using_token
        => \A i \in DOMAIN log :
              log[i].url # LOGIN
                  => /\ log[i].auth.kind = "Token"
                     /\ granted = {log[i].auth.cred}
                     /\ \A j \in DOMAIN log : log[j].url = LOGIN => j < i

C7_Witness ==
    /\ auth_using_token /\ op = "get_paginated" /\ nOps = 2 /\ nLogin = 1
    /\ Len(log) = 2 /\ log[2].url = PageUrl("queues", 2)
    /\ log[2].auth = [kind |-> "Token", cred |-> "k2"]

\* C8: in basic-auth mode no login call and no logout call is issued, the
\* token stays unset, every request carries the credentials, and a session of
\* one GET followed by teardown issues exactly one HTTP request.
C8_BasicMode ==
    ~auth_using_token
        => /\ nLogin = 0 /\ nLogout = 0 /\ token = NoToken
           /\ \A i \in DOMAIN log : log[i].auth.kind = "Basic"
           /\ (phase = "closed" /\ nOps = 1 /\ nGet = 1) => nRequests = 1

C8_Witness ==
    /\ ~auth_using_token /\ phase = "closed" /\ nOps = 1 /\ nGet = 1 /\ nRequests = 1

\* The service has served every request of the last operation.
Served == args.srv.fail = 0 /\ LoginsAnswered
PathOf(name) == IF name = "get_queue" THEN "queues" ELSE "workspaces"

\* C6: get_queue and get_workspace with no id fail with "... ID must be
\* specified." when the account has more than one candidate and return the
\* one object when it has exactly one; with an id they fetch that object and
\* never list the collection.
C6_SingleCandidate ==
    op \in {"get_queue", "get_workspace"}
        => /\ (args.id_.none /\ Served /\ NItems(args.srv) > 1)
                => result = Raise("ClickException",
                                  IF op = "get_queue" THEN "Queue ID must be specified."
                                  ELSE "Workspace ID must be specified.")
           /\ (args.id_.none /\ Served /\ NItems(args.srv) = 1)
                => /\ ~Raised(result)
                   /\ result.val.url = ItemUrl(PathOf(op), 1)
                   /\ args.sideloads = <<>> => result.val = Item(PathOf(op), 1)
           /\ ~args.id_.none
                => /\ \A i \in DOMAIN log :
                         log[i].url.path = PathOf(op)
                             => log[i].url = ItemUrl(PathOf(op), args.id_.v)
                   /\ LoginsAnswered => CountReq("get", ItemUrl(PathOf(op), args.id_.v)) = 1

C6_Witness ==
    /\ op = "get_queue" /\ args.id_.none /\ Served /\ NItems(args.srv) = 2
    /\ NPages(args.srv) = 2 /\ Len(log) >= 2
    /\ result.msg = "Queue ID must be specified."

\* C9: _encode_booleans keeps the keys of the query, renders every boolean,
\* given alone or inside a sequence, as the string "true" or "false", passes
\* every other value through, turns a scalar (a string too) into a sequence
\* of one, and leaves a missing query missing.
Encoded(v) ==
    IF v.t = "bool" THEN PyStr(IF v = PyTrue THEN "true" ELSE "false") ELSE v
C9_BooleansEncoded ==
    op = "encode_booleans"
        => IF args.query.none THEN result.val = NoneDict
           ELSE /\ ~result.val.none
                /\ DOMAIN result.val.d = DOMAIN args.query.d
                /\ \A k \in DOMAIN args.query.d :
                      IF args.query.d[k].t = "list"
                      THEN /\ Len(result.val.d[k]) = Len(args.query.d[k].items)
                           /\ \A i \in DOMAIN args.query.d[k].items :
                                 result.val.d[k][i] = Encoded(args.query.d[k].items[i])
                      ELSE result.val.d[k] = <<Encoded(args.query.d[k])>>

C9_Witness ==
    /\ op = "encode_booleans" /\ ~args.query.none
    /\ DOMAIN args.query.d = {"active", "page"}
    /\ args.query.d["active"] = PyTrue
    /\ args.query.d["page"] = PyList(<<PyFalse, PyStr("x")>>)
    /\ result.val.d["active"] = <<PyStr("true")>>
    /\ result.val.d["page"] = <<PyStr("false"), PyStr("x")>>

\* C10: when _sideload resolves one kind over objects that name it, every
\* reference URL the fetched collection holds is replaced by the fetched
\* object of that url and every other reference URL by an empty mapping, in a
\* singular field and position by position in a plural field; every field
\* stays, the other fields keep their values and nothing is raised.
HasRefs(o, kind) ==
    IF kind.singular \in DOMAIN o THEN IsUrl(o[kind.singular])
    ELSE /\ kind.plural \in DOMAIN o
         /\ \A j \in DOMAIN o[kind.plural] : IsUrl(o[kind.plural][j])
Expected(url, kind) ==
    IF url.path = kind.plural /\ url.id \in 1..NItems(args.srv)
    THEN Item(kind.plural, url.id) ELSE EmptyMap
ResolvedIn(o, o2, kind) ==
    LET f == IF kind.singular \in DOMAIN o THEN kind.singular ELSE kind.plural
    IN  /\ DOMAIN o2 = DOMAIN o
        /\ \A g \in DOMAIN o \ {f} : o2[g] = o[g]
        /\ IF f = kind.singular THEN o2[f] = Expected(o[f], kind)
           ELSE /\ Len(o2[f]) = Len(o[f])
                /\ \A j \in DOMAIN o[f] : o2[f][j] = Expected(o[f][j], kind)
C10_ReferencesResolved ==
    (/\ op = "sideload" /\ Len(args.sideloads) = 1 /\ Served
     /\ \A i \in DOMAIN args.objects : HasRefs(args.objects[i], args.sideloads[1]))
        => /\ ~Raised(result)
           /\ result.val = args.left
           /\ Len(args.left) = Len(args.objects)
           /\ \A i \in DOMAIN args.objects :
                 ResolvedIn(args.objects[i], args.left[i], args.sideloads[1])

C10_Witness ==
    /\ op = "sideload" /\ args.sideloads = <<WORKSPACES>> /\ Served
    /\ NItems(args.srv) = MaxItems /\ Len(args.objects) = 2
    /\ args.objects[1].url = ItemUrl("queues", 1)
    /\ args.objects[2].url = ItemUrl("queues", 1)
    /\ args.objects[1].workspace = ItemUrl("workspaces", MaxItems + 1)
    /\ args.objects[2].workspace = ItemUrl("workspaces", 1)
    /\ ~Raised(result)
    /\ args.left[1].workspace = EmptyMap
    /\ args.left[2].workspace = Item("workspaces", 1)

\* C11: _sideload called with no kind returns the objects it was handed, has
\* left them as they were and has issued no HTTP request (no login call
\* either), whatever the objects hold.
C11_NoKindNoRequest ==
    (op = "sideload" /\ args.sideloads = <<>>)
        => /\ result = Return(args.objects)
           /\ args.left = args.objects
           /\ log = <<>> /\ nRequests = 0 /\ nLogin = 0

C11_Witness ==
    /\ op = "sideload" /\ args.sideloads = <<>> /\ auth_using_token
    /\ Len(args.objects) = 2
    /\ "workspace" \in DOMAIN args.objects[1] /\ ~IsUrl(args.objects[1].workspace)
    /\ "queues" \in DOMAIN args.objects[2] /\ Len(args.objects[2].queues) = 2
    /\ result.val = args.objects /\ nRequests = 0

\* The request operations, the URL each is aimed at and the status each expects.
RequestOps == {"get", "get_url", "patch", "post", "delete_url"}
TargetOf(name) ==
    CASE name = "get" -> Url("schemas/1")
      [] name = "get_url" -> PageUrl("queues", 2)
      [] name = "patch" -> Url("schemas/1")
      [] name = "post" -> Url("schemas")
      [] OTHER -> Url("annotations/1")
MethodOf(name) == IF name = "get_url" THEN "get" ELSE IF name = "delete_url" THEN "delete" ELSE name
ExpectedStatus(name) ==
    CASE name \in {"get", "get_url", "patch"} -> 200
      [] name = "post" -> 201
      [] OTHER -> 204

\* C12: a request operation sends at most one request to its target, and
\* exactly one once it is authenticated; answered with a status, it fails
\* with the invalid response error exactly when that status is not the one it
\* expects (200 for get, get_url and patch, 201 for post, 204 for
\* delete_url), and returns the response otherwise.
C12_SingleAttemptExpectedStatus ==
    op \in RequestOps
        => /\ CountUrl(log, TargetOf(op)) <= 1
           /\ \A i \in DOMAIN log : log[i].url \in {LOGIN, TargetOf(op)}
           /\ LoginsAnswered => CountReq(MethodOf(op), TargetOf(op)) = 1
           /\ (CountUrl(log, TargetOf(op)) = 1 /\ ~args.response.error)
                => /\ result = InvalidResponse <=> args.response.status # ExpectedStatus(op)
                   /\ args.response.status = ExpectedStatus(op) => result = Return(args.response)

C12_Witness ==
    /\ op = "post" /\ args.response = Resp(200, Obj)
    /\ CountReq("post", Url("schemas")) = 1
    /\ result = InvalidResponse

\* The requests of the last operation other than login calls.
DataLog == SelectSeq(log, LAMBDA r : r.url # LOGIN)
PageLink(path, j) == IF j = 1 THEN Url(path) ELSE PageUrl(path, j)

\* C13: when the fetch of page j fails during get_paginated, the error of the
\* request layer is raised, pages 1..j are the only ones requested and the
\* caller is handed no items; a walk whose login fails requests no page.
C13_PageFailureNoPartialResult ==
    op = "get_paginated"
        => /\ (args.srv.fail > 0 /\ LoginsAnswered)
                => /\ result = InvalidResponse
                   /\ result.val = NoVal
                   /\ Len(DataLog) = args.srv.fail
                   /\ \A j \in DOMAIN DataLog : DataLog[j].url = PageLink("queues", j)
                   /\ DataLog[Len(DataLog)].answer.status = 500
           /\ ~LoginsAnswered => (Raised(result) /\ result.val = NoVal /\ DataLog = <<>>)

C13_Witness ==
    /\ op = "get_paginated" /\ LoginsAnswered
    /\ args.srv.fail = 2 /\ NPages(args.srv) = 2 /\ args.srv.cuts[1] > 0
    /\ Len(DataLog) = 2 /\ result = InvalidResponse

\* C14: get_paginated over a chain of P pages served whole issues exactly P
\* GET requests: the first to the collection path with the caller's query,
\* then one to each next link, in chain order and with no query.
C14_OneGetPerPage ==
    (op = "get_paginated" /\ args.srv.fail = 0 /\ LoginsAnswered)
        => /\ ~Raised(result)
           /\ Len(DataLog) = NPages(args.srv)
           /\ \A j \in DOMAIN DataLog :
                 /\ DataLog[j].method = "get"
                 /\ DataLog[j].url = PageLink("queues", j)
                 /\ DataLog[j].params = IF j = 1 THEN encode_booleans(args.query) ELSE NoneDict

C14_Witness ==
    /\ op = "get_paginated" /\ args.srv.fail = 0 /\ LoginsAnswered
    /\ NPages(args.srv) = MaxPages /\ ~args.query.none
    /\ Len(DataLog) = MaxPages
    /\ ~DataLog[1].params.none /\ DataLog[MaxPages].params.none

\* What a bulk delete printed for the entry i, and whether its DELETE was
\* sent and answered 204.
EchoOf(i) == SelectSeq(echoed, LAMBDA e : e.id = args.to_delete[i].id)
Deleted(i) ==
    /\ CountReq("delete", args.to_delete[i].url) = 1
    /\ args.responses[i] = Resp(204, <<>>)
Unanswered == {k \in DOMAIN log : log[k].answer.error}

\* C15: a bulk delete meets a failure that is no ClickException (a request,
\* the login call or the DELETE, gets no answer) exactly when it reports an
\* unexpected exception; it then reports it once, for the entry M at hand and
\* as the last thing printed, raises a ClickException carrying the failure,
\* sends nothing more (no DELETE for any entry after M), and every entry
\* before M has been handled as in a batch that goes through: one DELETE at
\* most, "caused" printed if it failed, "Deleted" if it did not and verbose > 1.
C15_UnexpectedFailureAborts ==
    op = "delete"
        => /\ Unanswered # {} <=> \E k \in DOMAIN echoed :
                                      echoed[k].said = "caused an unexpected exception"
           /\ Unanswered # {}
                => LET M == echoed[Len(echoed)].id
                   IN  /\ echoed[Len(echoed)].said = "caused an unexpected exception"
                       /\ Len(EchoOf(M)) = 1
                       /\ result = Raise("ClickException", "ConnectionError")
                       /\ Unanswered = {Len(log)}
                       /\ \A i \in DOMAIN args.to_delete :
                             /\ i > M => /\ CountReq("delete", args.to_delete[i].url) = 0
                                         /\ EchoOf(i) = <<>>
                             /\ i < M => /\ CountReq("delete", args.to_delete[i].url) <= 1
                                         /\ EchoOf(i) =
                                               IF ~Deleted(i) THEN <<[id |-> i, said |-> "caused"]>>
                                               ELSE IF args.verbose > 1
                                               THEN <<[id |-> i, said |-> "Deleted"]>>
                                               ELSE <<>>

C15_Witness ==
    /\ op = "delete" /\ Len(args.to_delete) = 3 /\ LoginsAnswered
    /\ args.responses[1] = Resp(404, [detail |-> "not found"])
    /\ args.responses[2] = NoResponse
    /\ echoed = <<[id |-> 1, said |-> "caused"],
                  [id |-> 2, said |-> "caused an unexpected exception"]>>
    /\ CountReq("delete", args.to_delete[2].url) = 1
    /\ CountReq("delete", args.to_delete[3].url) = 0
    /\ result.exc = "ClickException"

\* C16 (as claimed): once the session has been left (logout has run), the
\* cached token is unset.
C16_TokenClearedAfterLogout == phase = "closed" => token = NoToken

\* A login call that get_token does not take a key from.
FailedLogin(r) ==
    \/ r.answer.error
    \/ (400 <= r.answer.status /\ r.answer.status < 600)
    \/ r.answer.key = "None"

\* C17: the cached token starts unset; a step changes it only in token mode,
\* only from unset, and only to the key of a login call of that step which
\* did not fail; a step whose login calls all fail, or which makes none,
\* leaves it as it was; once set it keeps its value through every later step,
\* and every request of such a step carries it.
C17_TokenWrittenOnce ==
    /\ token = NoToken
    /\ [][/\ token # NoToken
               => /\ token' = token
                  /\ \A i \in DOMAIN log' : log'[i].url # LOGIN /\ log'[i].auth.cred = token
          /\ token' # token
               => /\ auth_using_token /\ token = NoToken
                  /\ \E i \in DOMAIN log' :
                        /\ log'[i].url = LOGIN /\ ~FailedLogin(log'[i])
                        /\ log'[i].answer.key = token'
                        /\ \A j \in DOMAIN log' : (log'[j].url = LOGIN /\ j # i)
                                                     => (j < i /\ FailedLogin(log'[j]))
          /\ (\A i \in DOMAIN log' : log'[i].url = LOGIN => FailedLogin(log'[i]))
               => token' = token]_vars

C17_Witness ==
    /\ auth_using_token /\ phase = "closed" /\ nOps = 2 /\ nGet = 2
    /\ nLogin = 1 /\ nRequests = 4 /\ granted = {"k2"} /\ token = "k2"
    /\ Len(log) = 1 /\ log[1].url = LOGOUT /\ log[1].auth.cred = "k2"

\* C18: a token-mode session left with no operation run in its body has
\* issued, at teardown, the login call first; when that login is granted it
\* has issued exactly two requests, the login call and then the logout call
\* carrying the token just granted, and when it is not, the login call alone.
C18_EmptyBodyLoginThenLogout ==
    (auth_using_token /\ phase = "closed" /\ nOps = 0)
        => /\ nLogin = 1 /\ Len(log) >= 1 /\ log[1].url = LOGIN /\ log[1].method = "post"
           /\ nRequests = Len(log)
           /\ LoginsAnswered
                => /\ Len(log) = 2 /\ nLogout = 1
                   /\ log[2].url = LOGOUT /\ log[2].method = "post"
                   /\ log[2].auth = [kind |-> "Token", cred |-> log[1].answer.key]
           /\ ~LoginsAnswered => (Len(log) = 1 /\ nLogout = 0 /\ Raised(result))

C18_Witness ==
    /\ auth_using_token /\ phase = "closed" /\ nOps = 0 /\ args.left = "body"
    /\ Len(log) = 2 /\ log[1].url = LOGIN /\ log[2].url = LOGOUT
    /\ nLogin = 1 /\ nLogout = 1 /\ ~Raised(result)

IdRequired(name) ==
    Raise("ClickException",
          IF name = "get_queue" THEN "Queue ID must be specified."
          ELSE "Workspace ID must be specified.")

\* C19: get_queue and get_workspace called with no id, their listing being
\* served, return an object if and only if the listing holds exactly one
\* element; over an empty listing they fail with the same "... ID must be
\* specified." error as over a listing of several, and resolve no sideload.
C19_NoCandidateIdRequired ==
    (op \in {"get_queue", "get_workspace"} /\ args.id_.none /\ Served)
        => /\ ~Raised(result) <=> NItems(args.srv) = 1
           /\ NItems(args.srv) # 1
                => /\ result = IdRequired(op)
                   /\ \A i \in DOMAIN DataLog : DataLog[i].url.path = PathOf(op)

C19_Witness ==
    /\ op = "get_workspace" /\ args.id_.none /\ Served /\ NItems(args.srv) = 0
    /\ args.sideloads = <<QUEUES>> /\ Len(DataLog) = NPages(args.srv)
    /\ result = IdRequired("get_workspace")

\* The first object handed to _sideload that has neither field of the kind.
Lacking(kind) ==
    {i \in DOMAIN args.objects :
        kind.singular \notin DOMAIN args.objects[i] /\ kind.plural \notin DOMAIN args.objects[i]}
FirstLacking(kind) == CHOOSE i \in Lacking(kind) : \A j \in Lacking(kind) : i <= j

\* C20: when _sideload resolves one kind, its collection being served, and
\* the object M is the first that carries neither field of the kind (those
\* before it naming the kind by URL), the sideload fails with KeyError for
\* the plural field; the whole collection has been fetched by then, page by
\* page, the objects before M are left with their references resolved, and M
\* and the objects after it are left as they were.
C20_MissingFieldFailsLate ==
    (/\ op = "sideload" /\ Len(args.sideloads) = 1 /\ Served
     /\ Lacking(args.sideloads[1]) # {}
     /\ \A i \in 1..(FirstLacking(args.sideloads[1]) - 1) :
           HasRefs(args.objects[i], args.sideloads[1]))
        => LET kind == args.sideloads[1]
               M == FirstLacking(kind)
           IN  /\ result = Raise("KeyError", kind.plural)
               /\ Len(DataLog) = NPages(args.srv)
               /\ \A j \in DOMAIN DataLog : DataLog[j].url = PageLink(kind.plural, j)
               /\ Len(args.left) = Len(args.objects)
               /\ \A i \in DOMAIN args.objects :
                     IF i < M THEN ResolvedIn(args.objects[i], args.left[i], kind)
                     ELSE args.left[i] = args.objects[i]

C20_Witness ==
    /\ op = "sideload" /\ args.sideloads = <<WORKSPACES>> /\ Served
    /\ NPages(args.srv) = MaxPages /\ NItems(args.srv) = MaxItems
    /\ Len(args.objects) = 2
    /\ "workspace" \in DOMAIN args.objects[1]
    /\ args.objects[1].workspace = ItemUrl("workspaces", 1)
    /\ args.objects[2].url = ItemUrl("schemas", 1)
    /\ result = Raise("KeyError", "workspaces")
    /\ args.left[1].workspace = Item("workspaces", 1)
    /\ args.left[2] = args.objects[2]

====
